---- MODULE Spec2Model ----
(***************************************************************************)
(* A model of the MCP lifecycle manager (MCPManager), the server registry  *)
(* it consults (MCPInstaller), the process handle it owns (MCPClient) and  *)
(* the circuit breaker of the error-handling layer (CircuitBreaker).       *)
(*                                                                         *)
(* The manager's operations are coroutines of one cooperative event loop:  *)
(* a task runs atomically from one await that really suspends to the next. *)
(* Every action below is one such atomic segment.                          *)
(***************************************************************************)
EXTENDS Integers, Sequences, FiniteSets, TLC

\* ------------------------------------------------------------------ bounds

\* Server names the callers use, and the tasks of the event loop.
Names == {"a", "b"}
Tasks == {"t1", "t2"}

\* What each task's caller asks of the manager: the first any operation, the
\* second the lifecycle operations that run concurrently with it.
LifecycleOps == {"setup", "stop", "restart"}
AllOps == LifecycleOps \cup {"call", "list", "health", "list_all", "status", "initialize", "cleanup"}
OpsOf(t) == IF t = "t1" THEN AllOps ELSE LifecycleOps

\* Handles (MCPClient objects) constructed during one run.
MaxHandles == 2

\* ------------------------------------------------------------------- state

VARIABLES
    installed_mcps,   \* MCPInstaller.installed_mcps: insertion-ordered dict, as a sequence of definitions
    config_file,      \* the YAML document at config_path: its installed_mcps mapping, in file order
    mcps_dir,         \* names n whose managed copy mcps/<n>.py exists
    fs_writable,      \* whether config_path can be opened for writing
    clients,          \* every MCPClient constructed so far, by handle id
    active_clients,   \* MCPManager.active_clients: the dict's entry array (deleted entries stay as dummies)
    exit_stack,       \* MCPManager.exit_stack: handle ids whose __aexit__ is registered
    initialized,      \* MCPManager._initialized
    tasks,            \* per task: the coroutine it runs and where it is suspended
    cb_state,         \* CircuitBreaker.state
    failure_count,    \* CircuitBreaker.failure_count
    last_failure_time,\* CircuitBreaker.last_failure_time (NoTime: None)
    failure_threshold,\* CircuitBreaker.failure_threshold
    now,              \* time.time()
    cb_calls,         \* per caller: its call through the breaker's wrapper
    streak,           \* history: how many calls in a row the wrapped function has failed
    retry,            \* one call through with_retry's wrapper: its parameters, locals and history
    last_call,        \* the last MCPInstaller call observed by its caller, and what it returned
    error_aggregator, \* an ErrorAggregator: its max_errors and its errors list
    added,            \* history: every error passed to add_error, in order
    nl                \* one run of the CLI's cmd_nl: its arguments, locals and the tools it invoked

mgrVars == <<installed_mcps, config_file, mcps_dir, fs_writable, clients,
             active_clients, exit_stack, initialized, tasks, last_call>>

auxVars == <<error_aggregator, added, nl>>

cbVars == <<cb_state, failure_count, last_failure_time, failure_threshold, now,
            cb_calls, streak, retry, auxVars>>

vars == <<mgrVars, cbVars>>

\* ------------------------------------------------------- sequences as dicts

Range(s) == {s[i] : i \in 1..Len(s)}

RECURSIVE SeqFilterOut(_, _)
SeqFilterOut(s, n) ==
    IF s = <<>> THEN <<>>
    ELSE IF Head(s).name = n THEN SeqFilterOut(Tail(s), n)
    ELSE <<Head(s)>> \o SeqFilterOut(Tail(s), n)

\* ---------------------------------------------------------------- registry

\* MCPType
MCPTypes == {"docker", "local", "registry"}

\* MCPConfig, with the dataclass's fields in their order; env_vars is a set of
\* <<key, value>> pairs.
MCPConfig(n, ty, src, env, en, desc) ==
    [name |-> n, type |-> ty, source |-> src, env_vars |-> env, enabled |-> en,
     description |-> desc]

\* env_vars = {} and description = "", the defaults of install_mcp
NoEnv == {}
NoDescription == ""

Registered(reg) == {reg[i].name : i \in 1..Len(reg)}

\* dict.get(name)
get_mcp_config(reg, n) == CHOOSE c \in Range(reg) : c.name = n

\* dict[name] = cfg: an existing key keeps its place
DictSet(reg, cfg) ==
    IF cfg.name \in Registered(reg)
    THEN [i \in 1..Len(reg) |-> IF reg[i].name = cfg.name THEN cfg ELSE reg[i]]
    ELSE Append(reg, cfg)

\* del dict[name]
DictDel(reg, n) == SeqFilterOut(reg, n)

RECURSIVE EnabledOf(_)
\* get_enabled_mcps, as the list of names in registry order
EnabledOf(reg) ==
    IF reg = <<>> THEN <<>>
    ELSE IF Head(reg).enabled THEN <<Head(reg).name>> \o EnabledOf(Tail(reg))
    ELSE EnabledOf(Tail(reg))

get_enabled_mcps == EnabledOf(installed_mcps)

\* list_installed_mcps, as the list of names in registry order
list_installed_mcps == [i \in 1..Len(installed_mcps) |-> installed_mcps[i].name]

\* No installer call observed yet.
NoSource == [scheme |-> "", path |-> "", exists |-> FALSE]
NoResult == [op |-> "", name |-> "", source |-> NoSource, ret |-> ""]

\* The order yaml.dump writes the keys of a mapping in (sort_keys is on).
NameRank(n) == IF n = "a" THEN 1 ELSE 2

RECURSIVE SortedByName(_)
SortedByName(S) ==
    IF S = {} THEN <<>>
    ELSE LET c == CHOOSE x \in S : \A y \in S : NameRank(x.name) <= NameRank(y.name)
         IN  <<c>> \o SortedByName(S \ {c})

\* Mutant: _save_config leaves the descriptions out of the document.
DumpWithoutDescription(reg) ==
    LET srt == SortedByName(Range(reg))
    IN  [i \in 1..Len(srt) |->
            <<srt[i].name,
              [type |-> srt[i].type, source |-> srt[i].source, env_vars |-> srt[i].env_vars,
               enabled |-> srt[i].enabled, description |-> ""]>>]

\* The document _save_config dumps: one key per name, sorted, each with the
\* five fields of its definition.
Dump(reg) ==
    LET srt == SortedByName(Range(reg))
    IN  [i \in 1..Len(srt) |->
            <<srt[i].name,
              [type |-> srt[i].type, source |-> srt[i].source, env_vars |-> srt[i].env_vars,
               enabled |-> srt[i].enabled, description |-> srt[i].description]>>]

\* _load_config: a definition per key of the document, in the document's order.
Load(file) ==
    [i \in 1..Len(file) |->
        MCPConfig(file[i][1], file[i][2].type, file[i][2].source, file[i][2].env_vars,
                  file[i][2].enabled, file[i][2].description)]

\* _save_config: the whole registry is written, or the open fails and the
\* exception propagates to the caller
SaveOk == fs_writable
SavedFile == IF SaveOk THEN Dump(installed_mcps') ELSE config_file

\* The sources a caller may pass to install_mcp: scheme and path.
Sources == {
    [scheme |-> "docker",   path |-> "image",      exists |-> FALSE],
    [scheme |-> "local",    path |-> "server.py",  exists |-> TRUE],
    [scheme |-> "local",    path |-> "missing.py", exists |-> FALSE],
    [scheme |-> "registry", path |-> "pkg",        exists |-> FALSE],
    [scheme |-> "other",    path |-> "pkg",        exists |-> FALSE] }

ManagedPath(n) == "mcps/" \o n \o ".py"

\* Mutant: install_mcp records a local definition without looking for its file.
install_mcp_unvalidated(n, src, desc, env, toolOk) ==
    /\ UNCHANGED <<fs_writable, clients, active_clients, exit_stack, initialized, tasks, cbVars>>
    /\ IF \/ src.scheme \notin {"docker", "local"}
          \/ ~toolOk
       THEN UNCHANGED <<installed_mcps, config_file, mcps_dir>>
       ELSE /\ installed_mcps' =
                 DictSet(installed_mcps,
                         MCPConfig(n, src.scheme,
                                   IF src.scheme = "local" THEN ManagedPath(n) ELSE src.path,
                                   env, TRUE, desc))
            /\ mcps_dir' = IF src.scheme = "local" THEN mcps_dir \cup {n} ELSE mcps_dir
            /\ config_file' = SavedFile

\* install_mcp(name, source): parse, validate, install by type, record, save.
\* toolOk: docker is available (docker) / the copy succeeds (local).
install_mcp(n, src, desc, env, toolOk) ==
    /\ UNCHANGED <<fs_writable, clients, active_clients, exit_stack, initialized, tasks, cbVars>>
    /\ IF \/ src.scheme \notin {"docker", "local"}
          \/ (src.scheme = "local" /\ ~src.exists)
          \/ ~toolOk
       THEN UNCHANGED <<installed_mcps, config_file, mcps_dir>>
       ELSE /\ installed_mcps' =
                 DictSet(installed_mcps,
                         MCPConfig(n, src.scheme,
                                   IF src.scheme = "local" THEN ManagedPath(n) ELSE src.path,
                                   env, TRUE, desc))
            /\ mcps_dir' = IF src.scheme = "local" THEN mcps_dir \cup {n} ELSE mcps_dir
            /\ config_file' = SavedFile

\* uninstall_mcp(name)
uninstall_mcp(n) ==
    /\ UNCHANGED <<fs_writable, clients, active_clients, exit_stack, initialized, tasks, cbVars>>
    /\ IF n \notin Registered(installed_mcps)
       THEN UNCHANGED <<installed_mcps, config_file, mcps_dir>>
       ELSE /\ mcps_dir' = IF get_mcp_config(installed_mcps, n).type = "local"
                           THEN mcps_dir \ {n} ELSE mcps_dir
            /\ installed_mcps' = DictDel(installed_mcps, n)
            /\ config_file' = SavedFile

\* enable_mcp(name) / disable_mcp(name)
SetEnabled(n, en) ==
    /\ UNCHANGED <<fs_writable, mcps_dir, clients, active_clients, exit_stack, initialized, tasks, cbVars>>
    /\ IF n \notin Registered(installed_mcps)
       THEN UNCHANGED <<installed_mcps, config_file>>
       ELSE /\ installed_mcps' =
                 DictSet(installed_mcps, [get_mcp_config(installed_mcps, n) EXCEPT !.enabled = en])
            /\ config_file' = SavedFile

enable_mcp(n) == SetEnabled(n, TRUE)
disable_mcp(n) == SetEnabled(n, FALSE)

\* What the installer's calls return. install_mcp catches every exception and
\* returns False, a failed save included; uninstall_mcp returns False for an
\* unknown name and when anything after that raises; enable_mcp / disable_mcp
\* return False for an unknown name and let a failed save propagate.
install_ret(n, src, toolOk) ==
    IF \/ src.scheme \notin {"docker", "local"}
       \/ (src.scheme = "local" /\ ~src.exists)
       \/ ~toolOk
    THEN "False"
    ELSE IF SaveOk THEN "True" ELSE "False"

uninstall_ret(n) ==
    IF n \notin Registered(installed_mcps) THEN "False"
    ELSE IF SaveOk THEN "True" ELSE "False"

set_enabled_ret(n) ==
    IF n \notin Registered(installed_mcps) THEN "False"
    ELSE IF SaveOk THEN "True" ELSE "raises"

\* The installer's calls as their caller sees them: the state change and the
\* value returned.
InstallCall(n, src, desc, env, toolOk) ==
    /\ install_mcp(n, src, desc, env, toolOk)
    /\ last_call' = [op |-> "install", name |-> n, source |-> src,
                     ret |-> install_ret(n, src, toolOk)]

UninstallCall(n) ==
    /\ uninstall_mcp(n)
    /\ last_call' = [op |-> "uninstall", name |-> n, source |-> NoSource,
                     ret |-> uninstall_ret(n)]

EnableCall(n) ==
    /\ enable_mcp(n)
    /\ last_call' = [op |-> "enable", name |-> n, source |-> NoSource,
                     ret |-> set_enabled_ret(n)]

DisableCall(n) ==
    /\ disable_mcp(n)
    /\ last_call' = [op |-> "disable", name |-> n, source |-> NoSource,
                     ret |-> set_enabled_ret(n)]

\* A new MCPInstaller on the same config_path: __init__ loads the file.
Reload ==
    /\ installed_mcps' = Load(config_file)
    /\ last_call' = [op |-> "reload", name |-> "", source |-> NoSource, ret |-> "None"]
    /\ UNCHANGED <<config_file, mcps_dir, fs_writable, clients, active_clients, exit_stack,
                   initialized, tasks, cbVars>>

\* The file at config_path becomes writable again.
FsRestored ==
    /\ ~fs_writable
    /\ fs_writable' = TRUE
    /\ UNCHANGED <<installed_mcps, config_file, mcps_dir, clients, active_clients,
                   exit_stack, initialized, tasks, last_call, cbVars>>

\* ------------------------------------------------------------------ handle

\* MCPClient.__init__: no session, an empty exit stack of its own.
\* name: the server the manager built it for; conns: the stdio transports
\* (subprocesses) entered in the handle's own _exit_stack.
NewClient(n) == [name |-> n, session |-> FALSE, conns |-> 0]

\* What the subprocess launch and the protocol handshake can do to a connect().
ConnectOutcomes == {"ok", "launch_failed", "handshake_failed"}

\* MCPClient.connect() on handle c: stdio_client is entered (a subprocess starts),
\* the ClientSession is entered and assigned, initialize() is awaited; a failure
\* is re-raised with whatever was entered so far left on the handle's stack.
connect(c, outcome) ==
    IF outcome = "launch_failed" THEN c
    ELSE [c EXCEPT !.conns = @ + 1, !.session = TRUE]

\* MCPClient.cleanup(), first half: aclose() pops every context of the handle's
\* stack and starts closing them.
cleanup_begin(c) == [c EXCEPT !.conns = 0]

\* MCPClient.cleanup(), second half: the session is dropped unless aclose() raised
\* (the exception is logged, not re-raised).
cleanup_end(c, raised) == IF raised THEN c ELSE [c EXCEPT !.session = FALSE]

\* cleanup() does not suspend when the handle's stack is empty.
CleanupSuspends(c) == c.conns > 0

\* list_tools / call_tool suspend only when there is a session to ask;
\* session() raises otherwise and the error is swallowed at once.
SessionCallSuspends(c) == c.session

\* -------------------------------------------------------------- active map

Dummy == [name |-> "", client |-> 0]

ActiveNames(act) == {act[i].name : i \in 1..Len(act)} \ {""}

\* active_clients[name]
ClientOf(act, n) == (CHOOSE e \in Range(act) : e.name = n).client

\* len(active_clients)
DictLen(act) == Cardinality(ActiveNames(act))

\* active_clients[name] = client
DictPut(act, n, h) ==
    IF n \in ActiveNames(act)
    THEN [i \in 1..Len(act) |-> IF act[i].name = n THEN [name |-> n, client |-> h] ELSE act[i]]
    ELSE Append(act, [name |-> n, client |-> h])

\* del active_clients[name]: the entry becomes a dummy, later entries keep their index
DictRemove(act, n) ==
    [i \in 1..Len(act) |-> IF act[i].name = n THEN Dummy ELSE act[i]]

\* ------------------------------------------------------------------- tasks

NoIter == [pos |-> 0, used |-> 0, len |-> 0]

Idle == [op |-> "idle", pc |-> "idle", name |-> "", client |-> 0,
         todo |-> <<>>, it |-> NoIter, acc |-> <<>>, ret |-> ""]

\* A coroutine that has returned (or raised) to its caller.
Done(tk, r) == [Idle EXCEPT !.op = tk.op, !.pc = "done", !.name = tk.name,
                            !.it = tk.it, !.acc = tk.acc, !.ret = r]

\* ------------------------------------------------------------------- setup

\* Mutant: setup_mcp without its `mcp_name in self.active_clients` check.
SetupGateNoActiveCheck(n, act, reg) ==
    IF n \notin Registered(reg) THEN "False"
    ELSE IF ~get_mcp_config(reg, n).enabled THEN "False"
    ELSE IF get_mcp_config(reg, n).type \notin {"docker", "local"} THEN "False"
    ELSE "connect"

\* Mutant: setup_mcp without its `mcp_config.enabled` check.
SetupGateNoEnabledCheck(n, act, reg) ==
    IF n \in ActiveNames(act) THEN "True"
    ELSE IF n \notin Registered(reg) THEN "False"
    ELSE IF get_mcp_config(reg, n).type \notin {"docker", "local"} THEN "False"
    ELSE "connect"

\* setup_mcp up to its first await: the result it returns at once, or "connect"
\* when it goes on to build a handle and connect it.
SetupGate(n, act, reg) ==
    IF n \in ActiveNames(act) THEN "True"
    ELSE IF n \notin Registered(reg) THEN "False"
    ELSE IF ~get_mcp_config(reg, n).enabled THEN "False"
    ELSE IF get_mcp_config(reg, n).type \notin {"docker", "local"} THEN "False"
    ELSE "connect"

\* _setup_docker_mcp / _setup_local_mcp up to `await client.connect()`:
\* a new handle, the task suspended in its first connect.
StartConnect(tk, n, cl) ==
    [task |-> [tk EXCEPT !.pc = "connect1", !.name = n, !.client = Len(cl) + 1],
     clients |-> Append(cl, NewClient(n)),
     initialized |-> initialized,
     blocked |-> Len(cl) >= MaxHandles]

Finished(tk, r, cl, ini) ==
    [task |-> Done(tk, r), clients |-> cl, initialized |-> ini, blocked |-> FALSE]

RECURSIVE InitLoop(_, _, _, _, _)
\* initialize's for loop from the name at the head of todo: every setup_mcp that
\* returns at once is passed over; the loop suspends in the first that connects,
\* or ends and sets _initialized.
InitLoop(tk, todo, acc, cl, act) ==
    IF todo = <<>>
    THEN Finished([tk EXCEPT !.acc = acc, !.name = ""], "None", cl, TRUE)
    ELSE LET n == Head(todo)
             g == SetupGate(n, act, installed_mcps)
         IN  IF g = "connect"
             THEN StartConnect([tk EXCEPT !.todo = Tail(todo), !.acc = acc], n, cl)
             ELSE InitLoop(tk, Tail(todo), Append(acc, [name |-> n, val |-> g]), cl, act)

\* Mutant: initialize gives up at the first server that fails to start.
AfterSetupAborts(tk, r, cl, act) ==
    IF tk.op = "initialize"
    THEN IF r = "False"
         THEN Finished([tk EXCEPT !.acc = Append(tk.acc, [name |-> tk.name, val |-> r]),
                                  !.name = ""], "None", cl, TRUE)
         ELSE InitLoop(tk, tk.todo, Append(tk.acc, [name |-> tk.name, val |-> r]), cl, act)
    ELSE Finished(tk, r, cl, initialized)

\* Where a task goes once its setup_mcp has returned r.
AfterSetup(tk, r, cl, act) ==
    IF tk.op = "initialize"
    THEN InitLoop(tk, tk.todo, Append(tk.acc, [name |-> tk.name, val |-> r]), cl, act)
    ELSE Finished(tk, r, cl, initialized)

\* setup_mcp called by task tk for n.
RunSetup(tk, n, cl, act) ==
    LET g == SetupGate(n, act, installed_mcps)
    IN  IF g = "connect" THEN StartConnect([tk EXCEPT !.name = n], n, cl)
        ELSE AfterSetup([tk EXCEPT !.name = n], g, cl, act)

\* A coroutine's result reaches its caller before the loop runs anything else.
NoneDone == \A t \in DOMAIN tasks : tasks[t].pc # "done"

\* A handle nothing refers to any more (no entry of the active map, no callback
\* of the shared stack, no local variable of a task) is garbage; the subprocesses
\* still on its stack, if any, are nobody's to close.
Referenced(h, act, stk, tks) ==
    \/ \E i \in 1..Len(act) : act[i].client = h
    \/ \E i \in 1..Len(stk) : stk[i] = h
    \/ \E t \in DOMAIN tks : tks[t].client = h

Collected == [name |-> "", session |-> FALSE, conns |-> 0]

Collect(cl, act, stk, tks) ==
    [h \in 1..Len(cl) |->
        IF ~Referenced(h, act, stk, tks) /\ cl[h].conns = 0 THEN Collected ELSE cl[h]]

\* Install the outcome of a task's atomic segment.
Commit(t, r, act, stk) ==
    /\ NoneDone
    /\ ~r.blocked
    /\ tasks' = [tasks EXCEPT ![t] = r.task]
    /\ clients' = Collect(r.clients, act, stk, tasks')
    /\ initialized' = r.initialized
    /\ active_clients' = act
    /\ exit_stack' = stk
    /\ UNCHANGED <<installed_mcps, config_file, mcps_dir, fs_writable, last_call, cbVars>>

\* A caller starts setup_mcp(n).
SetupMcp(t, n) ==
    /\ tasks[t].pc = "idle"
    /\ "setup" \in OpsOf(t)
    /\ Commit(t, RunSetup([Idle EXCEPT !.op = "setup"], n, clients, active_clients),
              active_clients, exit_stack)

\* The connect() awaited in _setup_docker_mcp / _setup_local_mcp ends: on a
\* failure the helper returns None and setup_mcp returns False; on success
\* setup_mcp enters the handle into the shared exit stack, whose __aenter__
\* calls connect() on it once more.
SetupConnected(t) ==
    /\ tasks[t].pc = "connect1"
    /\ \E outcome \in ConnectOutcomes :
        LET tk == tasks[t]
            cl == [clients EXCEPT ![tk.client] = connect(@, outcome)]
        IN  Commit(t,
                   IF outcome = "ok"
                   THEN [task |-> [tk EXCEPT !.pc = "connect2"], clients |-> cl,
                         initialized |-> initialized, blocked |-> FALSE]
                   ELSE AfterSetup([tk EXCEPT !.client = 0], "False", cl, active_clients),
                   active_clients, exit_stack)

\* enter_async_context(client) ends: the handle's __aexit__ is pushed on the
\* shared stack and the handle is stored under its name, or the exception of the
\* second connect() is caught by setup_mcp, which returns False.
SetupEntered(t) ==
    /\ tasks[t].pc = "connect2"
    /\ \E outcome \in ConnectOutcomes :
        LET tk == tasks[t]
            cl == [clients EXCEPT ![tk.client] = connect(@, outcome)]
            act == IF outcome = "ok" THEN DictPut(active_clients, tk.name, tk.client)
                   ELSE active_clients
            stk == IF outcome = "ok" THEN Append(exit_stack, tk.client) ELSE exit_stack
        IN  Commit(t, AfterSetup([tk EXCEPT !.client = 0],
                                 IF outcome = "ok" THEN "True" ELSE "False", cl, act),
                   act, stk)

\* -------------------------------------------------------------------- stop

\* Mutant: stop_mcp empties the active map instead of deleting one entry.
StopDeleteClearsMap(tk, cl, act) ==
    [ret |-> IF tk.name \in ActiveNames(act) THEN "True" ELSE "False",
     act |-> [i \in 1..Len(act) |-> Dummy],
     clients |-> cl]

\* `del self.active_clients[mcp_name]` and the return that follows it in
\* stop_mcp: a KeyError (the entry is gone) is caught and gives False.
StopDelete(tk, cl, act) ==
    [ret |-> IF tk.name \in ActiveNames(act) THEN "True" ELSE "False",
     act |-> DictRemove(act, tk.name),
     clients |-> cl]

\* Mutant: restart_mcp returns what its stop_mcp returned and sets nothing up.
AfterStopNoSetup(tk, r, cl, act) == Finished(tk, r, cl, initialized)

\* Where a task goes once its stop_mcp has returned r: restart_mcp ignores r
\* and calls setup_mcp.
AfterStop(tk, r, cl, act) ==
    IF tk.op = "restart"
    THEN RunSetup([tk EXCEPT !.client = 0], tk.name, cl, act)
    ELSE Finished(tk, r, cl, initialized)

\* stop_mcp called by task tk for n, up to the first await that suspends:
\* the new task, handles and active map.
RunStop(tk, n, cl, act) ==
    IF n \notin ActiveNames(act)
    THEN [res |-> AfterStop([tk EXCEPT !.name = n], "False", cl, act), act |-> act]
    ELSE LET h == ClientOf(act, n)
         IN  IF CleanupSuspends(cl[h])
             THEN [res |-> [task |-> [tk EXCEPT !.pc = "stop_cleanup", !.name = n, !.client = h],
                            clients |-> [cl EXCEPT ![h] = cleanup_begin(@)],
                            initialized |-> initialized, blocked |-> FALSE],
                   act |-> act]
             ELSE LET d == StopDelete([tk EXCEPT !.name = n],
                                      [cl EXCEPT ![h] = cleanup_end(@, FALSE)], act)
                  IN  [res |-> AfterStop([tk EXCEPT !.name = n], d.ret, d.clients, d.act),
                       act |-> d.act]

\* A caller starts stop_mcp(n).
StopMcp(t, n) ==
    /\ tasks[t].pc = "idle"
    /\ "stop" \in OpsOf(t)
    /\ LET r == RunStop([Idle EXCEPT !.op = "stop"], n, clients, active_clients)
       IN  Commit(t, r.res, r.act, exit_stack)

\* A caller starts restart_mcp(n): stop_mcp, then setup_mcp.
RestartMcp(t, n) ==
    /\ tasks[t].pc = "idle"
    /\ "restart" \in OpsOf(t)
    /\ LET r == RunStop([Idle EXCEPT !.op = "restart"], n, clients, active_clients)
       IN  Commit(t, r.res, r.act, exit_stack)

\* The client.cleanup() awaited in stop_mcp ends; the entry is deleted.
StopCleaned(t) ==
    /\ tasks[t].pc = "stop_cleanup"
    /\ \E raised \in BOOLEAN :
        LET tk == tasks[t]
            d == StopDelete(tk, [clients EXCEPT ![tk.client] = cleanup_end(@, raised)],
                            active_clients)
        IN  Commit(t, AfterStop(tk, d.ret, d.clients, d.act), d.act, exit_stack)

\* -------------------------------------------------- call, list, health check

\* Mutant: call_mcp starts a server that is not active instead of giving up.
CallMcpAutoStart(t, n) ==
    /\ tasks[t].pc = "idle"
    /\ "call" \in OpsOf(t)
    /\ Commit(t, RunSetup([Idle EXCEPT !.op = "call"], n, clients, active_clients),
              active_clients, exit_stack)

\* call_mcp(n, tool, args): None at once when n is not active or the handle has
\* no session; otherwise suspended in session.call_tool.
CallMcp(t, n) ==
    /\ tasks[t].pc = "idle"
    /\ "call" \in OpsOf(t)
    /\ LET tk == [Idle EXCEPT !.op = "call", !.name = n]
       IN  Commit(t,
                  IF n \in ActiveNames(active_clients)
                     /\ SessionCallSuspends(clients[ClientOf(active_clients, n)])
                  THEN [task |-> [tk EXCEPT !.pc = "call_tool",
                                            !.client = ClientOf(active_clients, n)],
                        clients |-> clients, initialized |-> initialized, blocked |-> FALSE]
                  ELSE Finished(tk, "None", clients, initialized),
                  active_clients, exit_stack)

\* A request on a session gets an answer only while a transport of the handle
\* is open; it fails otherwise (and may fail anyway).
SessionAnswers(c) == c.conns > 0

\* session.call_tool ends: its result, or None when it raised.
CallReturned(t) ==
    /\ tasks[t].pc = "call_tool"
    /\ \E ok \in BOOLEAN :
        /\ ok => SessionAnswers(clients[tasks[t].client])
        /\ Commit(t, Finished(tasks[t], IF ok THEN "result" ELSE "None", clients, initialized),
                  active_clients, exit_stack)

\* list_mcp_tools(n): [] at once when n is not active or the handle has no
\* session; otherwise suspended in session.list_tools.
ListMcpTools(t, n) ==
    /\ tasks[t].pc = "idle"
    /\ "list" \in OpsOf(t)
    /\ LET tk == [Idle EXCEPT !.op = "list", !.name = n]
       IN  Commit(t,
                  IF n \in ActiveNames(active_clients)
                     /\ SessionCallSuspends(clients[ClientOf(active_clients, n)])
                  THEN [task |-> [tk EXCEPT !.pc = "list_tools",
                                            !.client = ClientOf(active_clients, n)],
                        clients |-> clients, initialized |-> initialized, blocked |-> FALSE]
                  ELSE Finished(tk, "empty", clients, initialized),
                  active_clients, exit_stack)

\* What client.list_tools() hands back once session.list_tools has ended:
\* the server's tools, or [] when the call raised.
ListOutcomes == {"tools", "empty"}

\* Mutant: health_check takes an empty tool list for a failure.
HealthOfEmptyUnhealthy(listed) == IF listed = "empty" THEN "False" ELSE "True"

\* health_check's verdict on what client.list_tools() did: True unless it raised,
\* and client.list_tools() catches every exception itself.
HealthOf(listed) == "True"

\* health_check(n): False when n is not active; otherwise client.list_tools().
HealthCheck(t, n) ==
    /\ tasks[t].pc = "idle"
    /\ "health" \in OpsOf(t)
    /\ LET tk == [Idle EXCEPT !.op = "health", !.name = n]
       IN  Commit(t,
                  IF n \notin ActiveNames(active_clients)
                  THEN Finished(tk, "False", clients, initialized)
                  ELSE IF SessionCallSuspends(clients[ClientOf(active_clients, n)])
                  THEN [task |-> [tk EXCEPT !.pc = "list_tools",
                                            !.client = ClientOf(active_clients, n)],
                        clients |-> clients, initialized |-> initialized, blocked |-> FALSE]
                  ELSE Finished(tk, HealthOf("empty"), clients, initialized),
                  active_clients, exit_stack)

\* ------------------------------------------------------------ list_all_tools

\* The entries a dict iterator at position pos has still to look at.
EntriesAfter(act, pos) == {i \in 1..Len(act) : i > pos /\ act[i] # Dummy}

Min(S) == CHOOSE x \in S : \A y \in S : x <= y

RECURSIVE ListAllLoop(_, _, _, _, _)
\* `for mcp_name in self.active_clients` from the iterator `it` on: next() raises
\* RuntimeError when the dict's size is not the one the iteration started with,
\* or when it finds a key after having yielded that many; each name yielded is
\* listed, and the loop suspends in the first listing that has a session to ask.
ListAllLoop(tk, it, acc, cl, act) ==
    IF it.used # DictLen(act)
    THEN Finished([tk EXCEPT !.acc = <<>>], "RuntimeError", cl, initialized)
    ELSE IF EntriesAfter(act, it.pos) = {}
    THEN Finished([tk EXCEPT !.acc = acc, !.name = ""], "dict", cl, initialized)
    ELSE IF it.len = 0
    THEN Finished([tk EXCEPT !.acc = <<>>], "RuntimeError", cl, initialized)
    ELSE LET i == Min(EntriesAfter(act, it.pos))
             nit == [pos |-> i, used |-> it.used, len |-> it.len - 1]
         IN  IF SessionCallSuspends(cl[act[i].client])
             THEN [task |-> [tk EXCEPT !.pc = "list_tools", !.name = act[i].name,
                                       !.client = act[i].client, !.it = nit, !.acc = acc],
                   clients |-> cl, initialized |-> initialized, blocked |-> FALSE]
             ELSE ListAllLoop(tk, nit, Append(acc, [name |-> act[i].name, val |-> "empty"]),
                              cl, act)

\* A caller starts list_all_tools().
ListAllTools(t) ==
    /\ tasks[t].pc = "idle"
    /\ "list_all" \in OpsOf(t)
    /\ Commit(t, ListAllLoop([Idle EXCEPT !.op = "list_all"],
                             [pos |-> 0, used |-> DictLen(active_clients),
                              len |-> DictLen(active_clients)],
                             <<>>, clients, active_clients),
              active_clients, exit_stack)

\* ------------------------------------------------------------ get_mcp_status

\* One entry of the status mapping: is_active, and is_healthy, which is
\* health_check's result when is_active and False otherwise.
StatusEntry(n, is_active, health) ==
    [name |-> n, active |-> is_active,
     healthy |-> IF is_active THEN health = "True" ELSE FALSE]

RECURSIVE StatusLoop(_, _, _, _, _)
\* get_mcp_status's loop over the definitions listed when it was called: a name
\* not in the active map is reported at once; an active one is health-checked,
\* which suspends when its handle has a session to ask.
StatusLoop(tk, todo, acc, cl, act) ==
    IF todo = <<>>
    THEN Finished([tk EXCEPT !.acc = acc, !.name = "", !.todo = <<>>], "dict", cl, initialized)
    ELSE LET n == Head(todo)
         IN  IF n \notin ActiveNames(act)
             THEN StatusLoop(tk, Tail(todo), Append(acc, StatusEntry(n, FALSE, "False")), cl, act)
             ELSE IF SessionCallSuspends(cl[ClientOf(act, n)])
             THEN [task |-> [tk EXCEPT !.pc = "list_tools", !.name = n,
                                       !.client = ClientOf(act, n),
                                       !.todo = Tail(todo), !.acc = acc],
                   clients |-> cl, initialized |-> initialized, blocked |-> FALSE]
             ELSE StatusLoop(tk, Tail(todo),
                             Append(acc, StatusEntry(n, TRUE, HealthOf("empty"))), cl, act)

\* A caller starts get_mcp_status().
GetMcpStatus(t) ==
    /\ tasks[t].pc = "idle"
    /\ "status" \in OpsOf(t)
    /\ Commit(t, StatusLoop([Idle EXCEPT !.op = "status"], list_installed_mcps, <<>>,
                            clients, active_clients),
              active_clients, exit_stack)

\* session.list_tools ends for a task suspended in client.list_tools(), whichever
\* operation called it.
ListReturned(t) ==
    /\ tasks[t].pc = "list_tools"
    /\ \E listed \in ListOutcomes :
        LET tk == [tasks[t] EXCEPT !.client = 0]
        IN  /\ listed = "tools" => SessionAnswers(clients[tasks[t].client])
            /\ Commit(t,
                   CASE tk.op = "list" -> Finished(tk, listed, clients, initialized)
                     [] tk.op = "health" -> Finished(tk, HealthOf(listed), clients, initialized)
                     [] tk.op = "list_all" ->
                          ListAllLoop(tk, tk.it,
                                      Append(tk.acc, [name |-> tk.name, val |-> listed]),
                                      clients, active_clients)
                     [] tk.op = "status" ->
                          StatusLoop(tk, tk.todo,
                                     Append(tk.acc, StatusEntry(tk.name, TRUE, HealthOf(listed))),
                                     clients, active_clients),
                   active_clients, exit_stack)

\* ------------------------------------------------------ initialize, cleanup

\* Mutant: initialize() without its `if self._initialized: return`.
InitializeAlways(t) ==
    /\ tasks[t].pc = "idle"
    /\ "initialize" \in OpsOf(t)
    /\ Commit(t, InitLoop([Idle EXCEPT !.op = "initialize"], get_enabled_mcps, <<>>,
                          clients, active_clients),
              active_clients, exit_stack)

\* A caller starts initialize(): nothing when _initialized is set; otherwise
\* setup_mcp for every enabled definition, in registry order.
Initialize(t) ==
    /\ tasks[t].pc = "idle"
    /\ "initialize" \in OpsOf(t)
    /\ LET tk == [Idle EXCEPT !.op = "initialize"]
       IN  Commit(t,
                  IF initialized THEN Finished(tk, "None", clients, initialized)
                  ELSE InitLoop(tk, get_enabled_mcps, <<>>, clients, active_clients),
                  active_clients, exit_stack)

RECURSIVE CloseStack(_, _)
\* exit_stack.aclose(): the handles are popped last-in first-out and each one's
\* __aexit__ (its cleanup()) awaited; the loop suspends in the first cleanup
\* that has something to close (susp: that handle, 0 when the stack is drained).
CloseStack(stk, cl) ==
    IF stk = <<>> THEN [stack |-> <<>>, clients |-> cl, susp |-> 0]
    ELSE LET h == stk[Len(stk)]
             rest == SubSeq(stk, 1, Len(stk) - 1)
         IN  IF CleanupSuspends(cl[h])
             THEN [stack |-> rest, clients |-> [cl EXCEPT ![h] = cleanup_begin(@)], susp |-> h]
             ELSE CloseStack(rest, [cl EXCEPT ![h] = cleanup_end(@, FALSE)])

\* Mutant: cleanup() closes the stack but leaves the active map and the flag alone.
RunCleanupKeepsMap(t, tk, cl) ==
    LET c == CloseStack(exit_stack, cl)
    IN  IF c.susp # 0
        THEN Commit(t, [task |-> [tk EXCEPT !.pc = "aclose", !.client = c.susp],
                        clients |-> c.clients, initialized |-> initialized, blocked |-> FALSE],
                    active_clients, c.stack)
        ELSE Commit(t, Finished(tk, "None", c.clients, initialized), active_clients, c.stack)

\* MCPManager.cleanup() from the aclose() loop on: once the stack is drained the
\* active map is cleared and _initialized reset.
RunCleanup(t, tk, cl) ==
    LET c == CloseStack(exit_stack, cl)
    IN  IF c.susp # 0
        THEN Commit(t, [task |-> [tk EXCEPT !.pc = "aclose", !.client = c.susp],
                        clients |-> c.clients, initialized |-> initialized, blocked |-> FALSE],
                    active_clients, c.stack)
        ELSE Commit(t, Finished(tk, "None", c.clients, FALSE), <<>>, c.stack)

\* A caller starts cleanup().
Cleanup(t) ==
    /\ tasks[t].pc = "idle"
    /\ "cleanup" \in OpsOf(t)
    /\ RunCleanup(t, [Idle EXCEPT !.op = "cleanup"], clients)

\* The handle cleanup awaited inside aclose() ends.
CleanupClosed(t) ==
    /\ tasks[t].pc = "aclose"
    /\ \E raised \in BOOLEAN :
        RunCleanup(t, [tasks[t] EXCEPT !.client = 0],
                   [clients EXCEPT ![tasks[t].client] = cleanup_end(@, raised)])

\* The caller takes the result; the task is free for the next call.
Return(t) ==
    /\ tasks[t].pc = "done"
    /\ tasks' = [tasks EXCEPT ![t] = Idle]
    /\ UNCHANGED <<installed_mcps, config_file, mcps_dir, fs_writable, clients,
                   active_clients, exit_stack, initialized, last_call, cbVars>>

\* ------------------------------------------------- the handle used directly

\* How often the handle is connected without a cleanup in between.
MaxConns == 2

\* The requests a handle forwards to its session, and what each returns when
\* the request could not be made.
Queries == {"list_tools", "call_tool", "list_prompts", "get_prompt", "read_resource"}

EmptyOf(q) == IF q \in {"list_tools", "list_prompts", "get_prompt"} THEN "[]" ELSE "None"

\* One step of a caller's coroutine on handle h.
HandleStep(t, tk, c) ==
    /\ tasks' = [tasks EXCEPT ![t] = tk]
    /\ clients' = [clients EXCEPT ![1] = c]
    /\ UNCHANGED <<installed_mcps, config_file, mcps_dir, fs_writable, active_clients,
                   exit_stack, initialized, last_call, cbVars>>

\* Mutant: a request on a handle without a session lets session()'s
\* ConnectionError out.
ClientQueryUnguarded(t, q) ==
    /\ tasks[t].pc = "idle"
    /\ LET tk == [Idle EXCEPT !.op = q, !.client = 1]
       IN  IF SessionCallSuspends(clients[1])
           THEN HandleStep(t, [tk EXCEPT !.pc = "h_request"], clients[1])
           ELSE HandleStep(t, Done(tk, "raises"), clients[1])

\* list_tools / call_tool / list_prompts / get_prompt / read_resource: session()
\* raises when there is no session and the except clause returns the empty
\* value at once; otherwise the request is awaited.
ClientQuery(t, q) ==
    /\ tasks[t].pc = "idle"
    /\ LET tk == [Idle EXCEPT !.op = q, !.client = 1]
       IN  IF SessionCallSuspends(clients[1])
           THEN HandleStep(t, [tk EXCEPT !.pc = "h_request"], clients[1])
           ELSE HandleStep(t, Done(tk, EmptyOf(q)), clients[1])

\* The awaited request ends: its value, or the empty value when it raised.
ClientQueryReturned(t) ==
    /\ tasks[t].pc = "h_request"
    /\ \E ok \in BOOLEAN :
        /\ ok => SessionAnswers(clients[1])
        /\ HandleStep(t, Done(tasks[t], IF ok THEN "value" ELSE EmptyOf(tasks[t].op)),
                      clients[1])

\* connect() is called; it suspends entering the transport.
ClientConnect(t) ==
    /\ tasks[t].pc = "idle"
    /\ clients[1].conns < MaxConns
    /\ HandleStep(t, [Idle EXCEPT !.op = "connect", !.pc = "h_connect", !.client = 1],
                  clients[1])

\* connect() ends: it returns, or logs and re-raises.
ClientConnected(t) ==
    /\ tasks[t].pc = "h_connect"
    /\ \E outcome \in ConnectOutcomes :
        HandleStep(t, Done(tasks[t], IF outcome = "ok" THEN "None" ELSE "raises"),
                   connect(clients[1], outcome))

\* cleanup() is called: aclose() suspends when there is something to close.
ClientCleanup(t) ==
    /\ tasks[t].pc = "idle"
    /\ LET tk == [Idle EXCEPT !.op = "cleanup", !.client = 1]
       IN  IF CleanupSuspends(clients[1])
           THEN HandleStep(t, [tk EXCEPT !.pc = "h_aclose"], cleanup_begin(clients[1]))
           ELSE HandleStep(t, Done(tk, "None"), cleanup_end(clients[1], FALSE))

\* aclose() ends, normally or with an exception that cleanup() logs.
ClientCleanupClosed(t) ==
    /\ tasks[t].pc = "h_aclose"
    /\ \E raised \in BOOLEAN :
        HandleStep(t, Done(tasks[t], "None"), cleanup_end(clients[1], raised))

\* ---------------------------------------------------------- circuit breaker

\* Thresholds the breaker is built with, the recovery timeout, and how far the
\* clock runs.
MaxThreshold == 3
RecoveryTimeout == 2
MaxTime == 6

NoTime == -1

NoCall == [pc |-> "idle", admitted |-> "", ret |-> ""]

\* How the wrapped function ends: it returns, it raises an instance of
\* expected_exception, or it raises something else.
FuncOutcomes == {"ok", "expected", "other"}

\* CircuitBreaker.__init__
CBInit(callers) ==
    /\ cb_state = "CLOSED"
    /\ failure_count = 0
    /\ last_failure_time = NoTime
    /\ failure_threshold \in 1..MaxThreshold
    /\ now = 0
    /\ cb_calls = [c \in callers |-> NoCall]
    /\ streak = [any |-> 0, expected |-> 0]

\* `time.time() - self.last_failure_time > self.recovery_timeout`
RecoveryElapsed == now - last_failure_time > RecoveryTimeout

\* wrapper, up to `await func(...)`: an OPEN breaker turns HALF_OPEN once the
\* recovery timeout has elapsed and raises MCPError before that.
CBCall(c) ==
    /\ cb_calls[c].pc = "idle"
    /\ IF cb_state = "OPEN" /\ ~RecoveryElapsed
       THEN /\ cb_calls' = [cb_calls EXCEPT ![c] = [pc |-> "done", admitted |-> "", ret |-> "rejected"]]
            /\ UNCHANGED cb_state
       ELSE /\ cb_state' = IF cb_state = "OPEN" THEN "HALF_OPEN" ELSE cb_state
            /\ cb_calls' = [cb_calls EXCEPT ![c] = [pc |-> "running", admitted |-> cb_state', ret |-> ""]]
    /\ UNCHANGED <<failure_count, last_failure_time, failure_threshold, now, streak,
                   retry, auxVars, mgrVars>>

\* Mutant: a success in HALF_OPEN resets the count but does not close the breaker.
OnOutcomeStaysHalfOpen(outcome) ==
    CASE outcome = "ok" ->
            [state |-> cb_state, count |-> 0, last |-> last_failure_time]
      [] outcome = "expected" ->
            [state |-> IF failure_count + 1 >= failure_threshold THEN "OPEN" ELSE cb_state,
             count |-> failure_count + 1, last |-> now]
      [] OTHER ->
            [state |-> cb_state, count |-> failure_count, last |-> last_failure_time]

\* The breaker's bookkeeping when the wrapped function has ended with `outcome`.
OnOutcome(outcome) ==
    CASE outcome = "ok" ->
            [state |-> IF cb_state = "HALF_OPEN" THEN "CLOSED" ELSE cb_state,
             count |-> 0, last |-> last_failure_time]
      [] outcome = "expected" ->
            [state |-> IF failure_count + 1 >= failure_threshold THEN "OPEN" ELSE cb_state,
             count |-> failure_count + 1, last |-> now]
      [] OTHER ->
            [state |-> cb_state, count |-> failure_count, last |-> last_failure_time]

Capped(n) == IF n >= MaxThreshold THEN MaxThreshold ELSE n

\* wrapper, from the end of `await func(...)` on.
CBReturn(c) ==
    /\ cb_calls[c].pc = "running"
    /\ \E outcome \in FuncOutcomes :
        LET r == OnOutcome(outcome)
        IN  /\ cb_state' = r.state
            /\ failure_count' = r.count
            /\ last_failure_time' = r.last
            /\ cb_calls' = [cb_calls EXCEPT ![c] = [@ EXCEPT !.pc = "done", !.ret = outcome]]
            /\ streak' = [any |-> IF outcome = "ok" THEN 0 ELSE Capped(streak.any + 1),
                          expected |-> IF outcome = "expected"
                                       THEN Capped(streak.expected + 1) ELSE 0]
    /\ UNCHANGED <<failure_threshold, now, retry, auxVars, mgrVars>>

\* The caller takes the result (or the exception).
CBAck(c) ==
    /\ cb_calls[c].pc = "done"
    /\ cb_calls' = [cb_calls EXCEPT ![c] = NoCall]
    /\ UNCHANGED <<cb_state, failure_count, last_failure_time, failure_threshold, now,
                   streak, retry, auxVars, mgrVars>>

\* Time passes.
Tick ==
    /\ now < MaxTime
    /\ now' = now + 1
    /\ UNCHANGED <<cb_state, failure_count, last_failure_time, failure_threshold,
                   cb_calls, streak, retry, auxVars, mgrVars>>

\* --------------------------------------------------------------- with_retry

\* The parameters with_retry is applied with, and the retry_after hints a
\* rate-limit error may carry.
MaxAttempts == 3
MaxDelay == 2
MaxBackoff == 2
MaxRetryAfter == 2

\* retry_after = None
NoHint == -1

\* How one invocation of the wrapped function ends: it returns, or it raises
\* MCPConnectionError, MCPTimeoutError, MCPRateLimitError (with its retry_after)
\* or any other exception.
RetryOutcomes ==
    {[kind |-> k, retry_after |-> NoHint] : k \in {"ok", "connection", "timeout", "other"}}
    \cup {[kind |-> "rate_limit", retry_after |-> r] : r \in {NoHint} \cup (0..MaxRetryAfter)}

NoError == [kind |-> "", retry_after |-> NoHint]

\* The wrapper of with_retry(max_attempts, delay, backoff_factor), not yet called.
NewRetry(k, d, b) ==
    [pc |-> "idle", max_attempts |-> k, delay |-> d, backoff_factor |-> b,
     attempt |-> 0, current_delay |-> d, last_exception |-> NoError,
     log |-> <<>>, waits |-> <<>>, ret |-> "", raised |-> NoError]

NoRetry == NewRetry(3, 1, 2)

\* Mutant: every exception is retried.
IsTransientAny(e) == e.kind # "ok"

\* `except (MCPConnectionError, MCPTimeoutError, MCPRateLimitError)`
IsTransient(e) == e.kind \in {"connection", "timeout", "rate_limit"}

\* `isinstance(e, MCPRateLimitError) and e.retry_after`: None and 0 are both false.
WaitTime(e, current_delay) ==
    IF e.kind = "rate_limit" /\ e.retry_after # NoHint /\ e.retry_after # 0
    THEN e.retry_after
    ELSE current_delay

\* The wrapper is called: an empty range(max_attempts) falls through to
\* `raise last_exception` with last_exception None, which is a TypeError.
RetryCall ==
    /\ retry.pc = "idle"
    /\ retry' = IF retry.max_attempts = 0
                THEN [retry EXCEPT !.pc = "done", !.ret = "TypeError"]
                ELSE [retry EXCEPT !.pc = "calling"]
    /\ UNCHANGED <<cb_state, failure_count, last_failure_time, failure_threshold, now,
                   cb_calls, streak, auxVars, mgrVars>>

\* `await func(...)` ends inside the loop body.
RetryAttempt ==
    /\ retry.pc = "calling"
    /\ \E e \in RetryOutcomes :
        LET r == [retry EXCEPT !.log = Append(@, e)]
        IN  retry' =
              IF e.kind = "ok" THEN [r EXCEPT !.pc = "done", !.ret = "result"]
              ELSE IF IsTransient(e)
              THEN IF retry.attempt = retry.max_attempts - 1
                   THEN [r EXCEPT !.pc = "done", !.ret = "raised", !.raised = e,
                                  !.last_exception = e]
                   ELSE [r EXCEPT !.pc = "sleeping", !.last_exception = e,
                                  !.waits = Append(@, WaitTime(e, retry.current_delay))]
              ELSE [r EXCEPT !.pc = "done", !.ret = "raised", !.raised = e]
    /\ UNCHANGED <<cb_state, failure_count, last_failure_time, failure_threshold, now,
                   cb_calls, streak, auxVars, mgrVars>>

\* asyncio.sleep(wait_time) ends: the delay is scaled and the loop goes on.
RetrySlept ==
    /\ retry.pc = "sleeping"
    /\ retry' = [retry EXCEPT !.pc = "calling", !.attempt = @ + 1,
                              !.current_delay = @ * retry.backoff_factor]
    /\ UNCHANGED <<cb_state, failure_count, last_failure_time, failure_threshold, now,
                   cb_calls, streak, auxVars, mgrVars>>

\* --------------------------------------------------------- error aggregator

\* Caps the aggregator is built with, and how many errors are added in one run.
MaxCap == 2
MaxAdded == 4

\* The errors added, by their error_type.
ErrorTypes == {"connection_error", "timeout_error", "unknown_error"}

\* ErrorAggregator.__init__
NewAggregator(cap) == [max_errors |-> cap, errors |-> <<>>]

\* The Python slice s[-m:] for m >= 0: the last m elements, and the whole
\* list when m is 0 (-0 is 0) or not smaller than its length.
LastSlice(s, m) ==
    IF m = 0 \/ m >= Len(s) THEN s ELSE SubSeq(s, Len(s) - m + 1, Len(s))

\* add_error: append, then keep errors[-max_errors:] when the list is longer
\* than max_errors.
add_error(agg, e) ==
    LET appended == Append(agg.errors, e)
    IN  [agg EXCEPT !.errors = IF Len(appended) > agg.max_errors
                               THEN LastSlice(appended, agg.max_errors)
                               ELSE appended]

AddError ==
    /\ Len(added) < MaxAdded
    /\ \E e \in ErrorTypes :
        /\ error_aggregator' = add_error(error_aggregator, e)
        /\ added' = Append(added, e)
    /\ UNCHANGED <<cb_state, failure_count, last_failure_time, failure_threshold, now,
                   cb_calls, streak, retry, nl, mgrVars>>

\* ------------------------------------------------------------------ cmd_nl

\* How many tools the server lists.
MaxTools == 2

\* Names of the listed tools, and what _best_tool_match looks for in them.
ToolNames == {"read_page", "update_page", "search"}

HasRead(name) == name = "read_page"
HasEdit(name) == name = "update_page"

\* The values difflib's ratio() takes here, in thousandths.
Ratios == {200, 800}

\* A listed tool together with what the matcher measures on its name for the
\* query at hand: base (query against name), token_best (best token against
\* name) and whether the name starts with a token.
ToolsListed ==
    [name : ToolNames, base : Ratios, token_best : Ratios, starts : BOOLEAN]

RECURSIVE ToolLists(_)
\* The tool lists of at most k tools, no name listed twice.
ToolLists(k) ==
    IF k = 0 THEN {<<>>}
    ELSE LET shorter == ToolLists(k - 1)
             listed(l) == {l[i].name : i \in 1..Len(l)}
         IN  shorter \cup
             UNION {{Append(l, t) : t \in {x \in ToolsListed : x.name \notin listed(l)}} :
                    l \in {x \in shorter : Len(x) = k - 1}}

\* The verb hints of a query: whether its tokens hold a reading verb, an
\* editing verb.
NlQueries == [read_verb : BOOLEAN, edit_verb : BOOLEAN]

\* verb_boost, in thousandths
verb_boost(q) ==
    [read |-> IF q.read_verb THEN 200 ELSE 0,
     list |-> IF q.read_verb THEN 150 ELSE 0,
     edit |-> IF q.edit_verb THEN 200 ELSE 0]

\* score_tool, in thousandths: 0.5 * base + 0.5 * token_best + starts_bonus + vbonus
score_tool(t, q) ==
    (t.base \div 2) + (t.token_best \div 2)
    + (IF t.starts THEN 150 ELSE 0)
    + (IF HasRead(t.name) THEN verb_boost(q).read + verb_boost(q).list ELSE 0)
    + (IF HasEdit(t.name) THEN verb_boost(q).edit ELSE 0)

\* best_name = None
NoTool == ""

\* Mutant: a later tool of equal score replaces the best so far.
BetterOrEqual(s, best_score) == s >= best_score

\* `if s > best_score`
Better(s, best_score) == s > best_score

RECURSIVE BestLoop(_, _, _, _)
\* _best_tool_match's loop over the tools left, from (best_name, best_score).
BestLoop(tools, q, best_name, best_score) ==
    IF tools = <<>> THEN [name |-> best_name, score |-> best_score]
    ELSE LET s == score_tool(Head(tools), q)
         IN  IF Better(s, best_score)
             THEN BestLoop(Tail(tools), q, Head(tools).name, s)
             ELSE BestLoop(Tail(tools), q, best_name, best_score)

\* _best_tool_match(tools, query): starts from (None, -1.0).
best_tool_match(tools, q) == BestLoop(tools, q, NoTool, -1000)

\* `if not tool_name or score < 0.5`
Refuses(m) == m.name = NoTool \/ m.score < 500

\* cmd_nl not yet called: server path (a manager) or ephemeral path (a handle
\* of its own).
NewNl(path, q) ==
    [pc |-> "idle", path |-> path, query |-> q, tools |-> <<>>, tool_name |-> NoTool,
     score |-> -1000, invoked |-> <<>>, ret |-> ""]

NoNl == NewNl("server", [read_verb |-> FALSE, edit_verb |-> FALSE])

NlFrame ==
    UNCHANGED <<cb_state, failure_count, last_failure_time, failure_threshold, now,
                cb_calls, streak, retry, error_aggregator, added, mgrVars>>

\* cmd_nl is called: the manager is entered and the server started, or the
\* ephemeral handle connected, which raises out of cmd_nl on failure.
NlStart ==
    /\ nl.pc = "idle"
    /\ \E connected \in BOOLEAN :
        nl' = IF nl.path = "ephemeral" /\ ~connected
              THEN [nl EXCEPT !.pc = "done", !.ret = "raises"]
              ELSE [nl EXCEPT !.pc = "listing"]
    /\ NlFrame

\* The tool list arrives ([] when the listing failed); the best match is
\* computed and either refused or called.
NlListed ==
    /\ nl.pc = "listing"
    /\ \E tools \in ToolLists(MaxTools) :
        LET m == best_tool_match(tools, nl.query)
            r == [nl EXCEPT !.tools = tools, !.tool_name = m.name, !.score = m.score]
        IN  nl' = IF Refuses(m)
                  THEN [r EXCEPT !.pc = IF nl.path = "ephemeral" THEN "cleanup" ELSE "done",
                                 !.ret = "refused"]
                  ELSE [r EXCEPT !.pc = "calling", !.invoked = Append(@, m.name)]
    /\ NlFrame

\* call_mcp / call_tool returns: None is reported as a failed call.
NlCalled ==
    /\ nl.pc = "calling"
    /\ \E result \in {"None", "value"} :
        nl' = [nl EXCEPT !.pc = IF nl.path = "ephemeral" THEN "cleanup" ELSE "done",
                         !.ret = IF result = "None" THEN "failed" ELSE "success"]
    /\ NlFrame

\* `finally: await client.cleanup()` of the ephemeral path.
NlCleaned ==
    /\ nl.pc = "cleanup"
    /\ nl' = [nl EXCEPT !.pc = "done"]
    /\ NlFrame

\* The aggregator, its history and the CLI when nothing has used them.
AuxInit ==
    /\ error_aggregator = NewAggregator(MaxCap)
    /\ added = <<>>
    /\ nl = NoNl

\* ------------------------------------------------------------ specification

\* The registry as MCPInstaller.__init__ loads it: no file yet, or a file that
\* lists a definition of the reserved registry kind.
InitialRegistries ==
    { <<>>, <<MCPConfig("b", "registry", "pkg", NoEnv, TRUE, NoDescription)>> }

\* What the callers install: a local script under one name, an image under the other.
InstallInputs ==
    {<<"a", src>> : src \in {x \in Sources : x.scheme \in {"local", "other"}}}
    \cup {<<"b", src>> : src \in {x \in Sources : x.scheme \in {"docker", "registry"}}}

Install ==
    /\ NoneDone
    /\ \E i \in InstallInputs, toolOk \in BOOLEAN :
          install_mcp(i[1], i[2], NoDescription, NoEnv, toolOk)
    /\ UNCHANGED last_call
Uninstall == NoneDone /\ (\E n \in Names : uninstall_mcp(n)) /\ UNCHANGED last_call
Enable == NoneDone /\ (\E n \in Names : enable_mcp(n)) /\ UNCHANGED last_call
Disable == NoneDone /\ (\E n \in Names : disable_mcp(n)) /\ UNCHANGED last_call

\* One caller: every operation of the manager and of its registry, one at a time.
Init ==
    /\ installed_mcps \in InitialRegistries
    /\ config_file = Dump(installed_mcps)
    /\ mcps_dir = {}
    /\ fs_writable = TRUE
    /\ clients = <<>>
    /\ active_clients = <<>>
    /\ exit_stack = <<>>
    /\ initialized = FALSE
    /\ tasks = [t \in {"t1"} |-> Idle]
    /\ CBInit({})
    /\ retry = NoRetry
    /\ last_call = NoResult
    /\ AuxInit
    /\ failure_threshold = MaxThreshold

TaskNext ==
    \/ \E t \in DOMAIN tasks, n \in Names : SetupMcp(t, n)
    \/ \E t \in DOMAIN tasks : SetupConnected(t)
    \/ \E t \in DOMAIN tasks : SetupEntered(t)
    \/ \E t \in DOMAIN tasks, n \in Names : StopMcp(t, n)
    \/ \E t \in DOMAIN tasks, n \in Names : RestartMcp(t, n)
    \/ \E t \in DOMAIN tasks : StopCleaned(t)
    \/ \E t \in DOMAIN tasks, n \in Names : CallMcp(t, n)
    \/ \E t \in DOMAIN tasks : CallReturned(t)
    \/ \E t \in DOMAIN tasks, n \in Names : ListMcpTools(t, n)
    \/ \E t \in DOMAIN tasks, n \in Names : HealthCheck(t, n)
    \/ \E t \in DOMAIN tasks : ListAllTools(t)
    \/ \E t \in DOMAIN tasks : GetMcpStatus(t)
    \/ \E t \in DOMAIN tasks : ListReturned(t)
    \/ \E t \in DOMAIN tasks : Initialize(t)
    \/ \E t \in DOMAIN tasks : Cleanup(t)
    \/ \E t \in DOMAIN tasks : CleanupClosed(t)
    \/ \E t \in DOMAIN tasks : Return(t)

Next ==
    \/ Install
    \/ Uninstall
    \/ Enable
    \/ Disable
    \/ TaskNext

Spec == Init /\ [][Next]_vars

\* Two callers on one event loop, over a registry loaded with both servers
\* enabled: their coroutines interleave at every await that suspends.
LoadedRegistry ==
    <<MCPConfig("a", "local", ManagedPath("a"), NoEnv, TRUE, NoDescription),
      MCPConfig("b", "docker", "image", NoEnv, TRUE, NoDescription)>>

InitConc ==
    /\ installed_mcps = LoadedRegistry
    /\ config_file = Dump(installed_mcps)
    /\ mcps_dir = {"a"}
    /\ fs_writable = TRUE
    /\ clients = <<>>
    /\ active_clients = <<>>
    /\ exit_stack = <<>>
    /\ initialized = FALSE
    /\ tasks = [t \in Tasks |-> Idle]
    /\ CBInit({})
    /\ retry = NoRetry
    /\ last_call = NoResult
    /\ AuxInit
    /\ failure_threshold = MaxThreshold

SpecConc == InitConc /\ [][TaskNext]_vars

\* One caller through one breaker, one call at a time.
InitCB ==
    /\ installed_mcps = <<>>
    /\ config_file = <<>>
    /\ mcps_dir = {}
    /\ fs_writable = TRUE
    /\ clients = <<>>
    /\ active_clients = <<>>
    /\ exit_stack = <<>>
    /\ initialized = FALSE
    /\ tasks = [t \in {} |-> Idle]
    /\ CBInit({"c1"})
    /\ retry = NoRetry
    /\ last_call = NoResult
    /\ AuxInit

NextCB ==
    \/ \E c \in DOMAIN cb_calls : CBCall(c)
    \/ \E c \in DOMAIN cb_calls : CBReturn(c)
    \/ \E c \in DOMAIN cb_calls : CBAck(c)
    \/ Tick

SpecCB == InitCB /\ [][NextCB]_vars

\* Two callers through one breaker: their calls overlap at `await func(...)`.
InitCBConc ==
    /\ installed_mcps = <<>>
    /\ config_file = <<>>
    /\ mcps_dir = {}
    /\ fs_writable = TRUE
    /\ clients = <<>>
    /\ active_clients = <<>>
    /\ exit_stack = <<>>
    /\ initialized = FALSE
    /\ tasks = [t \in {} |-> Idle]
    /\ CBInit({"c1", "c2"})
    /\ retry = NoRetry
    /\ last_call = NoResult
    /\ AuxInit

SpecCBConc == InitCBConc /\ [][NextCB]_vars

\* One call through a with_retry wrapper, for every choice of its parameters.
InitRetry ==
    /\ installed_mcps = <<>>
    /\ config_file = <<>>
    /\ mcps_dir = {}
    /\ fs_writable = TRUE
    /\ clients = <<>>
    /\ active_clients = <<>>
    /\ exit_stack = <<>>
    /\ initialized = FALSE
    /\ tasks = [t \in {} |-> Idle]
    /\ CBInit({})
    /\ last_call = NoResult
    /\ AuxInit
    /\ retry \in {NewRetry(k, d, b) : k \in 0..MaxAttempts, d \in 1..MaxDelay, b \in 1..MaxBackoff}

NextRetry ==
    \/ RetryCall
    \/ RetryAttempt
    \/ RetrySlept

SpecRetry == InitRetry /\ [][NextRetry]_vars

\* The registry alone: every installer call with every kind of source, with and
\* without a description and environment, over a config file that may refuse
\* writes until it is repaired, and reloads of the file.
InstallExtras == { <<NoDescription, NoEnv>>, <<"d", {<<"K", "V">>}>> }

InitReg ==
    /\ installed_mcps \in InitialRegistries
    /\ config_file = Dump(installed_mcps)
    /\ mcps_dir = {}
    /\ fs_writable \in BOOLEAN
    /\ clients = <<>>
    /\ active_clients = <<>>
    /\ exit_stack = <<>>
    /\ initialized = FALSE
    /\ tasks = [t \in {} |-> Idle]
    /\ CBInit({})
    /\ failure_threshold = MaxThreshold
    /\ retry = NoRetry
    /\ last_call = NoResult
    /\ AuxInit

NextReg ==
    \/ \E n \in Names, src \in Sources, x \in InstallExtras, toolOk \in BOOLEAN :
          InstallCall(n, src, x[1], x[2], toolOk)
    \/ \E n \in Names : UninstallCall(n)
    \/ \E n \in Names : EnableCall(n)
    \/ \E n \in Names : DisableCall(n)
    \/ Reload
    \/ FsRestored

SpecReg == InitReg /\ [][NextReg]_vars

\* One handle used directly by two callers: connects, requests and cleanups in
\* any order, overlapping at their awaits.
InitClient ==
    /\ installed_mcps = <<>>
    /\ config_file = <<>>
    /\ mcps_dir = {}
    /\ fs_writable = TRUE
    /\ clients = <<NewClient("a")>>
    /\ active_clients = <<>>
    /\ exit_stack = <<>>
    /\ initialized = FALSE
    /\ tasks = [t \in Tasks |-> Idle]
    /\ CBInit({})
    /\ failure_threshold = MaxThreshold
    /\ retry = NoRetry
    /\ last_call = NoResult
    /\ AuxInit

NextClient ==
    \/ \E t \in DOMAIN tasks, q \in Queries : ClientQuery(t, q)
    \/ \E t \in DOMAIN tasks : ClientQueryReturned(t)
    \/ \E t \in DOMAIN tasks : ClientConnect(t)
    \/ \E t \in DOMAIN tasks : ClientConnected(t)
    \/ \E t \in DOMAIN tasks : ClientCleanup(t)
    \/ \E t \in DOMAIN tasks : ClientCleanupClosed(t)
    \/ \E t \in DOMAIN tasks : Return(t)

SpecClient == InitClient /\ [][NextClient]_vars

\* An error aggregator of every cap, fed errors one at a time.
InitAgg ==
    /\ installed_mcps = <<>>
    /\ config_file = <<>>
    /\ mcps_dir = {}
    /\ fs_writable = TRUE
    /\ clients = <<>>
    /\ active_clients = <<>>
    /\ exit_stack = <<>>
    /\ initialized = FALSE
    /\ tasks = [t \in {} |-> Idle]
    /\ CBInit({})
    /\ failure_threshold = MaxThreshold
    /\ retry = NoRetry
    /\ last_call = NoResult
    /\ error_aggregator \in {NewAggregator(cap) : cap \in 0..MaxCap}
    /\ added = <<>>
    /\ nl = NoNl

NextAgg == AddError

SpecAgg == InitAgg /\ [][NextAgg]_vars

\* One run of cmd_nl on either path, for every query and tool list.
InitNl ==
    /\ installed_mcps = <<>>
    /\ config_file = <<>>
    /\ mcps_dir = {}
    /\ fs_writable = TRUE
    /\ clients = <<>>
    /\ active_clients = <<>>
    /\ exit_stack = <<>>
    /\ initialized = FALSE
    /\ tasks = [t \in {} |-> Idle]
    /\ CBInit({})
    /\ failure_threshold = MaxThreshold
    /\ retry = NoRetry
    /\ last_call = NoResult
    /\ error_aggregator = NewAggregator(MaxCap)
    /\ added = <<>>
    /\ nl \in {NewNl(path, q) : path \in {"server", "ephemeral"}, q \in NlQueries}

NextNl ==
    \/ NlStart
    \/ NlListed
    \/ NlCalled
    \/ NlCleaned

SpecNl == InitNl /\ [][NextNl]_vars

\* ------------------------------------------------------------------ claims

IsDone(t, op) == tasks[t].pc = "done" /\ tasks[t].op = op

Enabled(n) == n \in Registered(installed_mcps) /\ get_mcp_config(installed_mcps, n).enabled
Disabled(n) == n \in Registered(installed_mcps) /\ ~get_mcp_config(installed_mcps, n).enabled

\* The active map holds each name at most once.
OneEntryPerName ==
    \A i, j \in 1..Len(active_clients) :
        (active_clients[i].name = active_clients[j].name /\ active_clients[i] # Dummy) => i = j

\* C1: setup_mcp(name) called while name is in the active map returns True at
\* once, constructs no handle, launches no subprocess and leaves the active map
\* and the shared exit stack as they are; the map never holds a name twice.
C1_SetupOfActiveIsNoOp ==
    /\ []OneEntryPerName
    /\ [][\A t \in DOMAIN tasks, n \in Names :
            (SetupMcp(t, n) /\ n \in ActiveNames(active_clients))
            => /\ tasks'[t].pc = "done"
               /\ tasks'[t].ret = "True"
               /\ clients' = clients
               /\ active_clients' = active_clients
               /\ exit_stack' = exit_stack]_vars

\* C1 witness: setup_mcp("a") has just returned True although the last handle
\* built is the one of "b", set up after "a": this call built nothing.
C1_Witness ==
    /\ IsDone("t1", "setup") /\ tasks["t1"].name = "a" /\ tasks["t1"].ret = "True"
    /\ Len(clients) = 2 /\ clients[1].name = "a" /\ clients[2].name = "b"
    /\ ActiveNames(active_clients) = {"a", "b"}
    /\ ClientOf(active_clients, "a") = 1
    /\ clients[1].conns > 0

\* The handles built for n that the manager holds (in the active map or on its
\* shared exit stack) and that have a subprocess running.
LiveHandles(n) ==
    {h \in 1..Len(clients) :
        /\ clients[h].name = n
        /\ clients[h].conns > 0
        /\ \/ \E i \in 1..Len(active_clients) : active_clients[i].client = h
           \/ \E i \in 1..Len(exit_stack) : exit_stack[i] = h}

\* C2: however setup_mcp and stop_mcp calls interleave at their awaits, the
\* manager never holds two connected handles for one name at the same time.
C2_AtMostOneLiveConnection ==
    \A n \in Names : Cardinality(LiveHandles(n)) <= 1

\* C3 as stated: setup_mcp on a registered, disabled name returns False,
\* launches nothing and leaves the active map unchanged.
C3_DisabledSetupReturnsFalse ==
    [][\A t \in DOMAIN tasks, n \in Names :
        (SetupMcp(t, n) /\ Disabled(n))
        => /\ tasks'[t].pc = "done"
           /\ tasks'[t].ret = "False"
           /\ clients' = clients
           /\ active_clients' = active_clients]_vars

\* C3 amended: setup_mcp on a registered, disabled name that is not already in
\* the active map returns False at once, launches nothing and leaves the active
\* map unchanged; initialize() leaves every name that is disabled when it is
\* called out of the servers it goes on to start.
C3_DisabledGate ==
    [][\A t \in DOMAIN tasks, n \in Names :
        /\ (SetupMcp(t, n) /\ Disabled(n) /\ n \notin ActiveNames(active_clients))
           => /\ tasks'[t].pc = "done"
              /\ tasks'[t].ret = "False"
              /\ clients' = clients
              /\ active_clients' = active_clients
              /\ exit_stack' = exit_stack
        /\ (Initialize(t) /\ Disabled(n))
           => /\ tasks'[t].name # n
              /\ n \notin Range(tasks'[t].todo)
              /\ active_clients' = active_clients]_vars

\* C3 witness: setup_mcp("a") has returned False for a disabled "a", and no
\* handle was ever built.
C3_Witness ==
    /\ IsDone("t1", "setup") /\ tasks["t1"].name = "a" /\ tasks["t1"].ret = "False"
    /\ Disabled("a")
    /\ clients = <<>>

NamesOf(acc) == [i \in 1..Len(acc) |-> acc[i].name]

\* The servers an initialize() in progress has dealt with, is starting, and has
\* still to start, in order.
InitPending(tk) ==
    NamesOf(tk.acc)
    \o (IF tk.pc \in {"connect1", "connect2"} THEN <<tk.name>> ELSE <<>>)
    \o tk.todo

\* C4: initialize() returns normally with the initialized flag set, whatever
\* subset of the enabled servers fails to start; the servers it leaves active
\* are exactly those whose setup_mcp returned True; and it attempts every enabled
\* definition in turn: a failure never drops the servers that come after it.
C4_InitializeIsolatesFailures ==
    /\ [](\A t \in DOMAIN tasks :
            IsDone(t, "initialize")
            => /\ tasks[t].ret = "None"
               /\ initialized
               /\ \A i \in 1..Len(tasks[t].acc) :
                    (tasks[t].acc[i].val = "True")
                    <=> (tasks[t].acc[i].name \in ActiveNames(active_clients)))
    /\ [][\A t \in DOMAIN tasks :
            /\ (Initialize(t) /\ ~initialized)
               => InitPending(tasks'[t]) = get_enabled_mcps
            /\ (tasks[t].op = "initialize" /\ tasks[t].pc \in {"connect1", "connect2"})
               => InitPending(tasks'[t]) = InitPending(tasks[t])]_vars

\* C4 witness: initialize() has returned after "a" failed to start (its handle
\* was built and its connect failed) and "b", which comes after it, is active.
C4_Witness ==
    /\ IsDone("t1", "initialize")
    /\ initialized
    /\ tasks["t1"].acc = <<[name |-> "a", val |-> "False"], [name |-> "b", val |-> "True"]>>
    /\ Len(clients) = 2
    /\ ActiveNames(active_clients) = {"b"}
    /\ ClientOf(active_clients, "b") = 2

\* C5: call_mcp for a name that is not in the active map returns None at once
\* and changes neither the handles, the active map, the exit stack nor the registry.
C5_CallOfInactiveIsNoOp ==
    [][\A t \in DOMAIN tasks, n \in Names :
        (CallMcp(t, n) /\ n \notin ActiveNames(active_clients))
        => /\ tasks'[t].pc = "done"
           /\ tasks'[t].ret = "None"
           /\ clients' = clients
           /\ active_clients' = active_clients
           /\ exit_stack' = exit_stack
           /\ installed_mcps' = installed_mcps]_vars

\* C5 witness: call_mcp("a") has returned None for a registered, enabled "a"
\* that is not active, and no handle was ever built.
C5_Witness ==
    /\ IsDone("t1", "call") /\ tasks["t1"].name = "a" /\ tasks["t1"].ret = "None"
    /\ Enabled("a")
    /\ "a" \notin ActiveNames(active_clients)
    /\ clients = <<>>

\* C6: a name leaves the active map only through stop_mcp or cleanup, so the
\* active names are always registered names.
C6_ActiveNamesAreRegistered ==
    ActiveNames(active_clients) \subseteq Registered(installed_mcps)

\* C7: get_mcp_status() returns one entry per definition registered when it is
\* called, in registry order; an entry's active flag says whether the name is in
\* the active map; a name that is not active is reported unhealthy, and an
\* active one healthy, since list_tools() on a handle never raises and an empty
\* tool list counts as healthy.
C7_StatusAggregation ==
    /\ [](\A t \in DOMAIN tasks :
            IsDone(t, "status")
            => /\ tasks[t].ret = "dict"
               /\ \A i \in 1..Len(tasks[t].acc) :
                    LET e == tasks[t].acc[i]
                    IN  /\ e.active = (e.name \in ActiveNames(active_clients))
                        /\ e.healthy = e.active
                        /\ \A j \in 1..Len(tasks[t].acc) : tasks[t].acc[j].name = e.name => j = i)
    /\ [][\A t \in DOMAIN tasks :
            /\ GetMcpStatus(t)
               => NamesOf(tasks'[t].acc)
                  \o (IF tasks'[t].pc = "list_tools" THEN <<tasks'[t].name>> ELSE <<>>)
                  \o tasks'[t].todo = list_installed_mcps
            /\ (tasks[t].op = "status" /\ tasks[t].pc = "list_tools")
               => NamesOf(tasks'[t].acc)
                  \o (IF tasks'[t].pc = "list_tools" THEN <<tasks'[t].name>> ELSE <<>>)
                  \o tasks'[t].todo
                  = NamesOf(tasks[t].acc) \o <<tasks[t].name>> \o tasks[t].todo]_vars

\* C7 witness: get_mcp_status() has returned an entry for "a", active and
\* healthy, and one for "b", registered but never set up, inactive and unhealthy.
C7_Witness ==
    /\ IsDone("t1", "status")
    /\ tasks["t1"].acc = <<[name |-> "a", active |-> TRUE, healthy |-> TRUE],
                           [name |-> "b", active |-> FALSE, healthy |-> FALSE]>>
    /\ Len(clients) = 1 /\ clients[1].name = "a"
    /\ Registered(installed_mcps) = {"a", "b"}

ActiveHandles(act) == {act[i].client : i \in 1..Len(act)} \ {0}

C9_ListAllSurvivesOtherNames ==
    \A t \in DOMAIN tasks :
        (/\ IsDone(t, "list_all")
         /\ tasks[t].it.pos \in 1..Len(active_clients)
         /\ tasks[t].name # ""
         /\ active_clients[tasks[t].it.pos].name = tasks[t].name)
        => tasks[t].ret = "dict"

RejectedCall(c) ==
    /\ cb_calls'[c].pc = "done"
    /\ cb_calls'[c].ret = "rejected"
    /\ cb_state' = cb_state
    /\ failure_count' = failure_count
    /\ last_failure_time' = last_failure_time

BreakerRecovery(c) ==
    /\ (CBCall(c) /\ cb_state = "OPEN" /\ now - last_failure_time < RecoveryTimeout)
       => RejectedCall(c)
    /\ (CBCall(c) /\ cb_state = "OPEN" /\ now - last_failure_time > RecoveryTimeout)
       => /\ cb_state' = "HALF_OPEN"
          /\ cb_calls'[c].pc = "running"
    /\ (CBReturn(c) /\ cb_state = "HALF_OPEN" /\ cb_calls'[c].ret = "ok")
       => /\ cb_state' = "CLOSED"
          /\ failure_count' = 0

\* C10 as stated: after failure_threshold consecutive calls that fail, whatever
\* they raise, the breaker is OPEN; calls in OPEN are rejected untouched until
\* the timeout has elapsed; the next is let through in HALF_OPEN and closes
\* the breaker when it succeeds.
C10_OpensAfterAnyFailures ==
    [][\A c \in DOMAIN cb_calls :
        /\ (CBReturn(c) /\ streak'.any >= failure_threshold) => cb_state' = "OPEN"
        /\ BreakerRecovery(c)]_vars

\* C10 amended: after failure_threshold consecutive calls that fail with an
\* exception of the breaker's expected type the breaker is OPEN; a call made
\* while OPEN before recovery_timeout has elapsed since the last failure is
\* rejected without running the wrapped function and without changing state,
\* count or failure time; a call made after the timeout is let through in
\* HALF_OPEN and, if it succeeds, leaves the breaker CLOSED with count 0.
C10_BreakerTransitions ==
    [][\A c \in DOMAIN cb_calls :
        /\ (CBReturn(c) /\ streak'.expected >= failure_threshold) => cb_state' = "OPEN"
        /\ BreakerRecovery(c)]_vars

\* C10 witness: with failure_threshold 3 the breaker opened, the call let
\* through in HALF_OPEN after the timeout has succeeded and the breaker is
\* CLOSED again with count 0.
C10_Witness ==
    /\ failure_threshold = 3
    /\ cb_calls["c1"].pc = "done"
    /\ cb_calls["c1"].admitted = "HALF_OPEN"
    /\ cb_calls["c1"].ret = "ok"
    /\ cb_state = "CLOSED"
    /\ failure_count = 0
    /\ last_failure_time # NoTime
    /\ now - last_failure_time > RecoveryTimeout

\* The calls that were let through while the breaker was HALF_OPEN and whose
\* wrapped function is still running.
TrialsInFlight ==
    {c \in DOMAIN cb_calls : cb_calls[c].pc = "running" /\ cb_calls[c].admitted = "HALF_OPEN"}

\* C11: in HALF_OPEN the breaker lets exactly one trial call through: no second
\* call reaches the wrapped function while the trial is in flight.
C11_SingleTrialInHalfOpen ==
    Cardinality(TrialsInFlight) <= 1

RECURSIVE Pow(_, _)
Pow(b, n) == IF n = 0 THEN 1 ELSE b * Pow(b, n - 1)

\* C12: the wait after the i-th failed attempt is the retry_after the rate-limit
\* error carried, whatever its value, and delay * backoff_factor^(i-1) when the
\* error carried none.
C12_WaitIsHintOrBackoff ==
    \A i \in 1..Len(retry.waits) :
        LET e == retry.log[i]
        IN  IF e.kind = "rate_limit" /\ e.retry_after # NoHint
            THEN retry.waits[i] = e.retry_after
            ELSE retry.waits[i] = retry.delay * Pow(retry.backoff_factor, i - 1)

TransientKinds == {"connection", "timeout", "rate_limit"}

\* C13: the wrapped function is invoked at most max_attempts times; every
\* invocation but the last one made failed with a connection, timeout or
\* rate-limit error and was followed by one wait; a success ends the call with
\* its result; any other error ends it at once, raised as it is, with no wait
\* after it; and when max_attempts invocations have all failed with transient
\* errors the call ends with the last of them raised, after max_attempts - 1 waits.
C13_RetryOnlyTransient ==
    LET n == Len(retry.log)
    IN  /\ n <= retry.max_attempts
        /\ \A i \in 1..(n - 1) : retry.log[i].kind \in TransientKinds
        /\ retry.pc = "calling" => Len(retry.waits) = n
        /\ retry.pc = "sleeping"
           => /\ Len(retry.waits) = n
              /\ n < retry.max_attempts
              /\ retry.log[n].kind \in TransientKinds
        /\ (retry.pc = "done" /\ retry.max_attempts >= 1)
           => /\ n >= 1
              /\ Len(retry.waits) = n - 1
              /\ CASE retry.log[n].kind = "ok" -> retry.ret = "result"
                   [] retry.log[n].kind = "other" ->
                        retry.ret = "raised" /\ retry.raised = retry.log[n]
                   [] OTHER ->
                        /\ n = retry.max_attempts
                        /\ retry.ret = "raised"
                        /\ retry.raised = retry.log[n]

\* C13 witness: three attempts out of three have failed with transient errors,
\* two waits were made and the timeout error of the third attempt is raised.
C13_Witness ==
    /\ retry.pc = "done"
    /\ retry.max_attempts = 3
    /\ Len(retry.log) = 3
    /\ retry.log[1].kind = "connection"
    /\ retry.log[2].kind = "rate_limit"
    /\ retry.log[3].kind = "timeout"
    /\ Len(retry.waits) = 2
    /\ retry.ret = "raised"
    /\ retry.raised = retry.log[3]

FileNames(file) == {file[i][1] : i \in 1..Len(file)}

\* C14: whenever an install, uninstall, enable or disable call has returned
\* success, loading the file gives the definitions held in memory: the same
\* names, each with the same type, source, env_vars, enabled flag and
\* description; a definition installed from a local path is stored, and
\* reloads, with the path of its managed copy as source.
C14_FileMatchesMemoryOnSuccess ==
    (last_call.op \in {"install", "uninstall", "enable", "disable"} /\ last_call.ret = "True")
    => /\ Range(Load(config_file)) = Range(installed_mcps)
       /\ Len(Load(config_file)) = Len(installed_mcps)
       /\ (last_call.op = "install" /\ last_call.source.scheme = "local")
          => /\ last_call.name \in Registered(Load(config_file))
             /\ get_mcp_config(Load(config_file), last_call.name).source
                = ManagedPath(last_call.name)
             /\ get_mcp_config(Load(config_file), last_call.name).source
                # last_call.source.path

\* C14 witness: "a" was installed from local://server.py with a description and
\* an environment after "b"; the file lists "a" first, so loading it gives the
\* same definitions in another order than memory holds them.
C14_Witness ==
    /\ last_call = [op |-> "install", name |-> "a",
                    source |-> [scheme |-> "local", path |-> "server.py", exists |-> TRUE],
                    ret |-> "True"]
    /\ Len(installed_mcps) = 2
    /\ installed_mcps[1].name = "b"
    /\ installed_mcps[2] = MCPConfig("a", "local", ManagedPath("a"), {<<"K", "V">>}, TRUE, "d")
    /\ config_file = Dump(installed_mcps)
    /\ Load(config_file) # installed_mcps

\* C15: uninstall of a registered name returns True and leaves the name out of
\* the registry and of the file, and its managed copy (for a local definition)
\* deleted; uninstall of an unknown name returns False and changes nothing.
C15_UninstallCleansUp ==
    [][\A n \in Names :
        UninstallCall(n)
        => IF n \in Registered(installed_mcps)
           THEN /\ last_call'.ret = "True"
                /\ n \notin Registered(installed_mcps')
                /\ n \notin FileNames(config_file')
                /\ get_mcp_config(installed_mcps, n).type = "local" => n \notin mcps_dir'
           ELSE /\ last_call'.ret = "False"
                /\ UNCHANGED <<installed_mcps, config_file, mcps_dir>>]_vars

BadSource(src) ==
    \/ src.scheme \notin {"docker", "local", "registry"}
    \/ src.scheme = "registry"
    \/ (src.scheme = "local" /\ ~src.exists)

\* C16: install_mcp with a source of unknown scheme, a local path that does not
\* exist or a registry source returns False and leaves the registry, the file
\* and the managed directory as they were, a definition of the same name included.
C16_BadSourceChangesNothing ==
    [][\A n \in Names, src \in Sources, x \in InstallExtras, toolOk \in BOOLEAN :
        (InstallCall(n, src, x[1], x[2], toolOk) /\ BadSource(src))
        => /\ last_call'.ret = "False"
           /\ UNCHANGED <<installed_mcps, config_file, mcps_dir>>]_vars

\* C16 witness: install_mcp("a", local://missing.py) has returned False while
\* "a" is registered, enabled and backed by its managed copy.
C16_Witness ==
    /\ last_call = [op |-> "install", name |-> "a",
                    source |-> [scheme |-> "local", path |-> "missing.py", exists |-> FALSE],
                    ret |-> "False"]
    /\ Enabled("a")
    /\ get_mcp_config(installed_mcps, "a").source = ManagedPath("a")
    /\ "a" \in mcps_dir
    /\ config_file = Dump(installed_mcps)

\* Task u is inside a stop_mcp(n) or a restart_mcp(n).
Stopping(u, n) ==
    /\ tasks[u].op \in {"stop", "restart"}
    /\ tasks[u].name = n
    /\ tasks[u].pc \notin {"idle", "done"}

\* C17: a setup_mcp, call_mcp or stop_mcp that is called for a name while
\* another task is stopping or restarting that name, and that returns at once,
\* returns False or None: the server is reported unavailable.
C17_UnavailableWhileStopping ==
    [][\A t, u \in DOMAIN tasks, n \in Names :
        (/\ t # u
         /\ Stopping(u, n)
         /\ SetupMcp(t, n) \/ CallMcp(t, n) \/ StopMcp(t, n)
         /\ tasks'[t].pc = "done")
        => tasks'[t].ret \in {"False", "None"}]_vars

\* C18: a request on a handle returns a value of the server or its empty value
\* ([] for the listings, None for call_tool and read_resource) and never
\* raises; on a handle without a session (never connected, or cleaned up) it
\* returns the empty value at once, and it returns the empty value whenever the
\* handle has no open transport for the session to answer over.
C18_RequestsNeverRaise ==
    /\ [](\A t \in DOMAIN tasks :
            (tasks[t].pc = "done" /\ tasks[t].op \in Queries)
            => tasks[t].ret \in {"value", EmptyOf(tasks[t].op)})
    /\ [][\A t \in DOMAIN tasks, q \in Queries :
            /\ (ClientQuery(t, q) /\ ~clients[1].session)
               => /\ tasks'[t].pc = "done"
                  /\ tasks'[t].ret = EmptyOf(q)
            /\ (ClientQueryReturned(t) /\ clients[1].conns = 0)
               => tasks'[t].ret = EmptyOf(tasks[t].op)]_vars

\* C18 witness: read_resource has returned None on a connected handle whose
\* cleanup is in progress: its transports are closed, its session not yet
\* dropped, so the request was made and failed.
C18_Witness ==
    /\ tasks["t2"].op = "cleanup" /\ tasks["t2"].pc = "h_aclose"
    /\ tasks["t1"].pc = "done" /\ tasks["t1"].op = "read_resource"
    /\ tasks["t1"].ret = "None"
    /\ clients[1].session
    /\ clients[1].conns = 0

\* C19: whenever cleanup() returns on a handle, it returns normally and the
\* handle has no session and nothing left to close.
C19_CleanupDropsSession ==
    [][\A t \in DOMAIN tasks :
        ((ClientCleanup(t) \/ ClientCleanupClosed(t)) /\ tasks'[t].pc = "done")
        => /\ tasks'[t].ret = "None"
           /\ ~clients'[1].session
           /\ clients'[1].conns = 0]_vars

\* C20: initialize() called while the initialized flag is set returns at once,
\* builds no handle and changes neither the active map, the shared stack, the
\* flag nor the registry, whatever is enabled and not active at that moment.
C20_InitializeIsIdempotent ==
    [][\A t \in DOMAIN tasks :
        (Initialize(t) /\ initialized)
        => /\ tasks'[t].pc = "done"
           /\ tasks'[t].ret = "None"
           /\ tasks'[t].acc = <<>>
           /\ UNCHANGED <<clients, active_clients, exit_stack, initialized,
                          installed_mcps, config_file, mcps_dir>>]_vars

\* C20 witness: a second initialize() has returned without an attempt although
\* "a" is enabled and not active and "b", also enabled, is active.
C20_Witness ==
    /\ IsDone("t1", "initialize")
    /\ tasks["t1"].acc = <<>>
    /\ initialized
    /\ Enabled("a") /\ "a" \notin ActiveNames(active_clients)
    /\ Enabled("b") /\ "b" \in ActiveNames(active_clients)

\* The last m elements of s (all of s when it has fewer than m).
LastOf(s, m) == IF m >= Len(s) THEN s ELSE SubSeq(s, Len(s) - m + 1, Len(s))

\* C21: after any sequence of add_error calls on an aggregator of any
\* non-negative cap, the list holds at most max_errors errors, and they are
\* the most recently added ones in insertion order.
C21_KeepsMostRecentWithinCap ==
    /\ Len(error_aggregator.errors) <= error_aggregator.max_errors
    /\ error_aggregator.errors = LastOf(added, error_aggregator.max_errors)

\* The listed tools no other listed tool beats: of highest score, and the
\* earliest of those.
TopTools(tools, q) ==
    {i \in 1..Len(tools) :
        /\ \A j \in 1..Len(tools) : score_tool(tools[j], q) <= score_tool(tools[i], q)
        /\ \A j \in 1..(i - 1) : score_tool(tools[j], q) < score_tool(tools[i], q)}

\* C22: cmd_nl invokes no tool when the tool list is empty or the best score
\* is below 0.5; a tool it invokes is the one of highest score among the
\* listed tools, the earliest listed on a tie; and it invokes at most one.
C22_InvokesBestMatchOnce ==
    /\ Len(nl.invoked) <= 1
    /\ nl.pc \in {"idle", "listing"} => nl.invoked = <<>>
    /\ nl.tools = <<>> => nl.invoked = <<>>
    /\ (\A i \in 1..Len(nl.tools) : score_tool(nl.tools[i], nl.query) < 500)
       => nl.invoked = <<>>
    /\ nl.invoked # <<>>
       => \E i \in TopTools(nl.tools, nl.query) : nl.tools[i].name = nl.invoked[1]

\* C22 witness: two tools tie at the highest score, which the second reaches
\* through the verb hints; the first listed was invoked, once, and the run is over.
C22_Witness ==
    /\ nl.pc = "done"
    /\ Len(nl.tools) = 2
    /\ score_tool(nl.tools[1], nl.query) = score_tool(nl.tools[2], nl.query)
    /\ nl.tools[2].name = "read_page" /\ nl.query.read_verb
    /\ nl.invoked = <<nl.tools[1].name>>
    /\ nl.ret = "success"

\* C23: a successful setup_mcp performs connect() once on the handle it builds:
\* connect() is never invoked on a handle that is already connected, and the
\* handle it registers owns exactly one live subprocess.
C23_SetupConnectsOnce ==
    [][\A t \in DOMAIN tasks :
        /\ (SetupConnected(t) \/ SetupEntered(t))
           => clients[tasks[t].client].conns = 0
        /\ (SetupEntered(t)
            /\ tasks[t].name \in ActiveNames(active_clients') \ ActiveNames(active_clients))
           => clients'[ClientOf(active_clients', tasks[t].name)].conns = 1]_vars

\* Task t runs the stop_mcp half of a restart_mcp(n) to its end in this step.
RestartStopEnds(t, n) ==
    /\ \/ RestartMcp(t, n)
       \/ (StopCleaned(t) /\ tasks[t].op = "restart" /\ tasks[t].name = n)
    /\ tasks'[t].pc # "stop_cleanup"

Supported(n) ==
    n \in Registered(installed_mcps) /\ get_mcp_config(installed_mcps, n).type \in {"docker", "local"}

\* C24 as stated: restart_mcp of a registered, enabled name ends with the name
\* active, whether or not it was active before.
C24_RestartEndsActive ==
    \A t \in DOMAIN tasks :
        (IsDone(t, "restart") /\ Enabled(tasks[t].name))
        => tasks[t].name \in ActiveNames(active_clients)

\* C24 amended: restart_mcp(name) runs stop_mcp(name), ignores its result, then
\* runs setup_mcp(name) and returns that result: once the stop has ended the
\* name is out of the active map, and for a registered, enabled name of a
\* supported type a handle is built and connected whether or not the name was
\* active before; when restart_mcp returns True the name is active on the
\* handle this call built, and when the server fails to start it returns False
\* with the name inactive; with no other operation interleaved, the name is
\* active afterwards exactly when restart_mcp returned True.
C24_RestartStopsThenSetsUp ==
    /\ [](\A t \in DOMAIN tasks :
            IsDone(t, "restart")
            => /\ tasks[t].ret \in {"True", "False"}
               /\ tasks[t].ret = "True" <=> tasks[t].name \in ActiveNames(active_clients))
    /\ [][\A t \in DOMAIN tasks, n \in Names :
            /\ RestartStopEnds(t, n)
               => /\ n \notin ActiveNames(active_clients')
                  /\ IF Enabled(n) /\ Supported(n)
                     THEN /\ tasks'[t].pc = "connect1"
                          /\ tasks'[t].client = Len(clients) + 1
                          /\ clients'[tasks'[t].client] = NewClient(n)
                     ELSE /\ tasks'[t].pc = "done"
                          /\ tasks'[t].ret = "False"
            /\ (tasks[t].op = "restart" /\ tasks'[t].pc = "done" /\ tasks'[t].ret = "True")
               => /\ SetupEntered(t)
                  /\ ClientOf(active_clients', tasks[t].name) = tasks[t].client
                  /\ tasks[t].client \notin ActiveHandles(active_clients)]_vars

\* C24 witness: restart_mcp("a") has returned True for an "a" that was active
\* on the first handle: that handle is closed and "a" is active on the second.
C24_Witness ==
    /\ IsDone("t1", "restart") /\ tasks["t1"].name = "a" /\ tasks["t1"].ret = "True"
    /\ Len(clients) = 2 /\ clients[1].name = "a" /\ clients[2].name = "a"
    /\ clients[1].conns = 0
    /\ ClientOf(active_clients, "a") = 2
    /\ clients[2].conns > 0

\* What a stop_mcp(n) step leaves alone: every handle but h, the entries of
\* all other names, the shared stack, the flag and the registry.
StopFrame(n, h) ==
    /\ Len(clients') = Len(clients)
    /\ \A k \in 1..Len(clients) : k # h => clients'[k] = clients[k]
    /\ \A m \in Names \ {n} :
        /\ m \in ActiveNames(active_clients') <=> m \in ActiveNames(active_clients)
        /\ m \in ActiveNames(active_clients)
           => ClientOf(active_clients', m) = ClientOf(active_clients, m)
    /\ UNCHANGED <<exit_stack, initialized, installed_mcps, config_file, mcps_dir>>

\* C25: stop_mcp(name) returns False and changes nothing when name is not
\* active; when name is active it invokes cleanup on that name's handle,
\* removes name from the active map and returns True; the handles and active
\* entries of all other names are left untouched.
C25_StopTouchesOnlyItsName ==
    [][\A t \in DOMAIN tasks, n \in Names :
        /\ (StopMcp(t, n) /\ n \notin ActiveNames(active_clients))
           => /\ tasks'[t].pc = "done"
              /\ tasks'[t].ret = "False"
              /\ UNCHANGED <<clients, active_clients>>
              /\ StopFrame(n, 0)
        /\ (StopMcp(t, n) /\ n \in ActiveNames(active_clients))
           => LET h == ClientOf(active_clients, n)
              IN  /\ clients'[h].conns = 0
                  /\ StopFrame(n, h)
                  /\ \/ /\ tasks'[t].pc = "stop_cleanup"
                        /\ tasks'[t].client = h
                        /\ active_clients' = active_clients
                     \/ /\ tasks'[t].pc = "done"
                        /\ tasks'[t].ret = "True"
                        /\ n \notin ActiveNames(active_clients')
        /\ (StopCleaned(t) /\ tasks[t].op = "stop" /\ tasks[t].name = n)
           => /\ tasks'[t].pc = "done"
              /\ tasks'[t].ret = "True"
              /\ n \notin ActiveNames(active_clients')
              /\ clients'[tasks[t].client].conns = 0
              /\ StopFrame(n, tasks[t].client)]_vars

\* C25 witness: stop_mcp("a") has returned True after closing the handle of
\* "a" while "b", set up after it, is still active on its connected handle.
C25_Witness ==
    /\ IsDone("t1", "stop") /\ tasks["t1"].name = "a" /\ tasks["t1"].ret = "True"
    /\ Len(clients) = 2 /\ clients[1].name = "a" /\ clients[2].name = "b"
    /\ clients[1].conns = 0
    /\ ActiveNames(active_clients) = {"b"}
    /\ ClientOf(active_clients, "b") = 2
    /\ clients[2].conns > 0
    /\ exit_stack = <<1, 2>>

\* C26: whenever the wrapped function raises during a call admitted in
\* HALF_OPEN, the breaker is OPEN when that call returns and the recovery timer
\* restarts at the time of that failure; a call made before recovery_timeout
\* has elapsed since then is rejected without running the wrapped function.
C26_FailedTrialReopens ==
    [][\A c \in DOMAIN cb_calls :
        /\ (CBReturn(c) /\ cb_calls[c].admitted = "HALF_OPEN" /\ cb_calls'[c].ret # "ok")
           => /\ cb_state' = "OPEN"
              /\ last_failure_time' = now
        /\ (CBCall(c) /\ cb_state = "OPEN" /\ now - last_failure_time < RecoveryTimeout)
           => RejectedCall(c)]_vars

\* C27: no subprocess launched by the manager is orphaned: every handle with a
\* live connection is in the active map or registered on the shared stack (or
\* still in the hands of the setup_mcp call that is building it), so once
\* setup_mcp has returned False every connection it opened has been closed.
C27_NoOrphanedSubprocess ==
    \A h \in 1..Len(clients) :
        clients[h].conns > 0 => Referenced(h, active_clients, exit_stack, tasks)

InstallerCall ==
    \/ \E n \in Names, src \in Sources, x \in InstallExtras, toolOk \in BOOLEAN :
          InstallCall(n, src, x[1], x[2], toolOk)
    \/ \E n \in Names : UninstallCall(n) \/ EnableCall(n) \/ DisableCall(n)

\* C29: when the registry file cannot be written, install, uninstall, enable
\* and disable return False without raising and leave the in-memory registry
\* as it was before the call, so the registry in memory and the file never
\* hold different definitions.
C29_FailedSaveRollsBack ==
    /\ [](Range(Load(config_file)) = Range(installed_mcps))
    /\ [][(InstallerCall /\ ~fs_writable)
          => /\ last_call'.ret = "False"
             /\ installed_mcps' = installed_mcps]_vars

\* C30: in every reachable state of a breaker of threshold T >= 1, calls that
\* overlap at their awaits included: CLOSED implies failure_count < T, and
\* OPEN or HALF_OPEN implies failure_count >= T with a last-failure time recorded.
C30_StateMatchesCount ==
    /\ failure_threshold >= 1
    /\ cb_state = "CLOSED" => failure_count < failure_threshold
    /\ cb_state \in {"OPEN", "HALF_OPEN"}
       => /\ failure_count >= failure_threshold
          /\ last_failure_time # NoTime

====
